---- MODULE Spec2Model ----
(***************************************************************************)
(* A model of convertToFlac.py: the cue-sheet parser (CueAlbum, CueDisc,   *)
(* CueConverter.parse_cue_file) and the split/tag pipeline                 *)
(* (Converter.convert, CueConverter.convert, CueToFlacTagUtils,            *)
(* FileUtils).                                                             *)
(*                                                                         *)
(* A sheet line is a record [ind, key, arg, eol]:                          *)
(*   ind  TRUE when the line starts with blanks or tabs,                   *)
(*   key  the keyword that follows ("FILE", "TITLE", "PERFORMER",          *)
(*        "REM DATE", "TRACK", "INDEX", "REM"),                            *)
(*   arg  what follows the keyword: the words shlex.split yields (a quoted *)
(*        string is one word); for an INDEX line, the pieces that          *)
(*        line.split(':') yields after the keyword,                        *)
(*   eol  the number of os.linesep the line itself ends with (0 for a line *)
(*        that str.splitlines returned).                                   *)
(* An optional value (None in Python) is a sequence of length 0 or 1.      *)
(***************************************************************************)
EXTENDS Integers, Sequences, FiniteSets, TLC

VARIABLES
    debug,            \* args.debug
    fallback,         \* args.fallback_cue_encoding (<<>> when not given)
    dest_abs,         \* os.path.isabs(args.dest_dir)
    cue_files,        \* files_dict['cue']: the directory of each sheet found
    pc,               \* the statement the run is at
    sheet_idx,        \* position in cue_files of the sheet being converted
    decodes,          \* the decode attempts readTextFile made for that sheet
    cue_file_lines,   \* the lines readTextFile returned for that sheet
    parse_pos,        \* lines of cue_file_lines consumed by parse_cue_file
    cue_album,        \* CueConverter.cue_album
    cue_disc_id,      \* the loop variable of CueConverter.convert
    first_track_num,  \* the local of CueConverter.convert
    temp_cue,         \* the local temp_cue (<<>> while unbound)
    temp_dir,         \* the local temp_dir (<<>> while unbound)
    err,              \* the exception in flight ("None" when there is none)
    fs_cues,          \* the temporary sheet files that exist
    fs_dirs,          \* the cueconvert_* directories that exist, with their files
    dest,             \* the destination paths: what each is, and the files in it
    split_calls,      \* the shnsplit invocations of this sheet
    split_out,        \* the files shnsplit left for the disc being processed
    tag_calls,        \* the metaflac invocations for that disc
    moved             \* the files move_to_newdir relocated for that disc

vars == <<debug, fallback, dest_abs, cue_files, pc, sheet_idx, decodes, cue_file_lines,
          parse_pos, cue_album, cue_disc_id, first_track_num, temp_cue, temp_dir,
          err, fs_cues, fs_dirs, dest, split_calls, split_out,
          tag_calls, moved>>

(***************************************************************************)
(* Bounds of the model.                                                    *)
(***************************************************************************)
MaxLines == 4
MaxSheets == 2
MaxDiscs == 2
MaxTracks == 2

\* CueConverter.FIRST_TRACK_START_NUMBER
FIRST_TRACK_START_NUMBER == 1

None == <<>>
Some(v) == <<v>>

Line(ind, key, arg) == [ind |-> ind, key |-> key, arg |-> arg, eol |-> 0]

Last(s) == s[Len(s)]

Min(a, b) == IF a <= b THEN a ELSE b

(***************************************************************************)
(* CueAlbum and CueDisc.                                                   *)
(***************************************************************************)
\* CueAlbum.__init__
CueAlbum == [album_tag |-> None, artist_tag |-> None, year_tag |-> None,
             cue_disks |-> <<>>, header |-> <<>>, raised |-> "None"]

\* CueDisc.__init__
CueDisc == [titles_tags |-> <<>>, cue_context |-> <<>>, music_file_name |-> None]

\* shlex.split(s)[i] raises IndexError when s has no more than i words; the
\* album records the exception that ends the parse.
Raise(album, e) == [album EXCEPT !.raised = e]

\* The mutant of _populate_album_tag: the first TITLE line wins.
populate_album_tag_first(album, line) ==
    IF ~line.ind /\ line.key = "TITLE"
    THEN IF line.arg = <<>> THEN Raise(album, "IndexError")
         ELSE IF album.album_tag # None THEN album
         ELSE [album EXCEPT !.album_tag = Some(line.arg[1])]
    ELSE album

\* CueAlbum._populate_album_tag: re.match('^TITLE (.*)$', line)
populate_album_tag(album, line) ==
    IF ~line.ind /\ line.key = "TITLE"
    THEN IF line.arg = <<>> THEN Raise(album, "IndexError")
         ELSE [album EXCEPT !.album_tag = Some(line.arg[1])]
    ELSE album

\* CueAlbum._populate_artist_tag: re.match('^PERFORMER (.*)$', line)
populate_artist_tag(album, line) ==
    IF ~line.ind /\ line.key = "PERFORMER"
    THEN IF line.arg = <<>> THEN Raise(album, "IndexError")
         ELSE [album EXCEPT !.artist_tag = Some(line.arg[1])]
    ELSE album

\* CueAlbum._populate_year_tag: re.match('^REM DATE (.*)$', line)
populate_year_tag(album, line) ==
    IF ~line.ind /\ line.key = "REM DATE"
    THEN IF line.arg = <<>> THEN Raise(album, "IndexError")
         ELSE [album EXCEPT !.year_tag = Some(line.arg[1])]
    ELSE album

\* A call made after an exception was raised does not happen.
Then(album, next) == IF album.raised # "None" THEN album ELSE next

\* CueAlbum.append_line_to_header
append_line_to_header(album, line) ==
    LET a0 == [album EXCEPT !.header = Append(@, line)]
        a1 == populate_album_tag(a0, line)
        a2 == Then(a1, populate_artist_tag(a1, line))
    IN Then(a2, populate_year_tag(a2, line))

\* CueDisc._populate_title_tag: re.match('([ \t]+)?TITLE (.*)$', line)
populate_title_tag(disc, line) ==
    IF line.key = "TITLE" /\ line.arg # <<>>
    THEN [disc EXCEPT !.titles_tags = Append(@, line.arg[1])]
    ELSE disc

\* CueDisc.append_to_cue_context
append_to_cue_context(disc, line) ==
    populate_title_tag([disc EXCEPT !.cue_context = Append(@, line)], line)

\* CueAlbum.append_cue_disc
append_cue_disc(album, cue_disc) ==
    [album EXCEPT !.cue_disks = Append(@, cue_disc)]

\* CueAlbum.get_disc: id is 0-based
get_disc(album, id) == album.cue_disks[id + 1]

(***************************************************************************)
(* CueConverter.parse_cue_file.                                            *)
(***************************************************************************)
\* CueConverter.fix_time_format: the line without its line separators, split
\* at ':', '0' and os.linesep appended to the last piece.
fix_time_format(line) ==
    IF line.key = "INDEX" /\ line.arg # <<>>
    THEN [line EXCEPT !.arg = [@ EXCEPT ![Len(@)] = @ \o "0"], !.eol = 1]
    ELSE line

\* The mutant of the FILE test of parse_cue_file: an indented FILE line opens
\* a disc too.
startswith_FILE_any(line) == line.key = "FILE"

\* line.startswith("FILE ")
startswith_FILE(line) == ~line.ind /\ line.key = "FILE"

\* The body of the loop of parse_cue_file, for one line.
parse_line(album, line) ==
    LET opened == IF startswith_FILE(line)
                  THEN LET a == append_cue_disc(album, CueDisc)
                       IN IF line.arg = <<>> THEN Raise(a, "IndexError")
                          ELSE [a EXCEPT !.cue_disks[Len(a.cue_disks)].music_file_name
                                             = Some(line.arg[1])]
                  ELSE album
        n == Len(opened.cue_disks)
    IN Then(opened,
            IF n > 0
            THEN LET fixed == fix_time_format(line)
                 IN IF fixed.key = "TITLE" /\ fixed.arg = <<>>
                    THEN Raise(opened, "IndexError")
                    ELSE [opened EXCEPT !.cue_disks[n] = append_to_cue_context(@, fixed)]
            ELSE append_line_to_header(opened, line))

RECURSIVE parse_from(_, _, _)
parse_from(album, lines, i) ==
    IF i > Len(lines) \/ album.raised # "None" THEN album
    ELSE parse_from(parse_line(album, lines[i]), lines, i + 1)

\* CueConverter.parse_cue_file, on the lines readTextFile returned
parse_cue_file(lines) == parse_from(CueAlbum, lines, 1)

\* The argument of create_temp_cue_file in CueConverter.convert
temp_cue_content(album, cue_disc) == album.header \o cue_disc.cue_context

(***************************************************************************)
(* FileUtils.readTextFile.  A sheet file is [enc, lines]: enc is the       *)
(* encoding its bytes decode under ("bad": neither utf-8 nor the fallback).*)
(***************************************************************************)
\* The depth at which Python gives up a recursion (sys.getrecursionlimit()),
\* scaled down.
RecursionLimit == 3

Decodes(file, encoding) == file.enc = encoding

\* depth is the number of calls of readTextFile on the stack; attempts counts
\* the f.read() calls made.
RECURSIVE readTextFile(_, _, _, _)
readTextFile(file, encoding, fb, depth) ==
    IF depth > RecursionLimit
    THEN [raised |-> "RecursionError", lines |-> <<>>, attempts |-> depth]
    ELSE IF Decodes(file, encoding)
    THEN [raised |-> "None", lines |-> file.lines, attempts |-> depth + 1]
    ELSE IF encoding # "utf-8"
    THEN [raised |-> "IOError", lines |-> <<>>, attempts |-> depth + 1]
    ELSE IF fb = None \/ fb = Some("")
    THEN [raised |-> "IOError", lines |-> <<>>, attempts |-> depth + 1]
    ELSE readTextFile(file, fb[1], fb, depth + 1)

(***************************************************************************)
(* The files of the run.  A temporary sheet is [id, content]; a temporary  *)
(* directory is [id, loc, stale, files]; an output file is [n, t, mtime],  *)
(* named "<n>. <t>.flac" by shnsplit -t '%n. %t'.                          *)
(***************************************************************************)
\* CueConverter.create_temp_cue_file: the file exists from line 177 on; stored
\* says whether the bytes written reached the file that os.path.getsize
\* reads. Each line written is at least os.linesep long.
create_temp_cue_file(cue_content_array, id, stored) ==
    LET size == IF stored THEN Len(cue_content_array) ELSE 0
    IN [file |-> [id |-> id, content |-> IF stored THEN cue_content_array ELSE <<>>],
        raised |-> IF size = 0 THEN "IOError" ELSE "None"]

\* The tracks of a temporary sheet, as the splitter reads them: one per TRACK
\* line, titled by the TITLE line that follows it before the next TRACK line.
TrackTitles(content) ==
    LET at == {i \in 1..Len(content) : content[i].key = "TRACK"}
        nth(k) == CHOOSE i \in at : Cardinality({j \in at : j < i}) = k - 1
        upto(k) == IF k = Cardinality(at) THEN Len(content) ELSE nth(k + 1) - 1
        titles(k) == {i \in nth(k)..upto(k) : content[i].key = "TITLE" /\ content[i].arg # <<>>}
    IN [k \in 1..Cardinality(at) |->
           IF titles(k) = {} THEN ""
           ELSE content[CHOOSE i \in titles(k) : \A j \in titles(k) : i <= j].arg[1]]

\* What shnsplit leaves in out_dir: written in track order, the pregap file
\* first; k is the number of tracks written before it exited.
SplitterOutput(content, first, pregap, k) ==
    {[n |-> first + i - 1, t |-> TrackTitles(content)[i], mtime |-> i] : i \in 1..k}
        \cup (IF pregap THEN {[n |-> first - 1, t |-> "pregap", mtime |-> 0]} ELSE {})

\* The mutant of split_file_by_cue_sheet: CalledProcessError is not caught.
split_file_by_cue_sheet_uncaught(status) ==
    IF status # 0 THEN "CalledProcessError" ELSE "None"

\* CueConverter.split_file_by_cue_sheet: the exception it lets out, given the
\* exit status of shnsplit (check_output raises CalledProcessError on a
\* non-zero status; lines 200-201 catch and log it).
split_file_by_cue_sheet(status) == "None"

\* glob '*pregap.flac'
IsPregap(f) == f.t = "pregap"

\* The mutant of remove_pregap_files: nothing is removed.
remove_pregap_files_none(files) == files

\* CueConverter.remove_pregap_files: the files left in temp_dir
remove_pregap_files(files) == {f \in files : ~IsPregap(f)}

\* files.sort(key=os.path.getmtime)
SortByMtime(files) ==
    CHOOSE s \in [1..Cardinality(files) -> files] :
        /\ \A i, j \in DOMAIN s : i # j => s[i] # s[j]
        /\ \A i, j \in DOMAIN s : i < j => s[i].mtime <= s[j].mtime

\* The mutant of __add_if_present: a value that is not None is written, the
\* empty string too.
add_if_present_empty(tag) == tag

\* CueToFlacTagUtils.__add_if_present: the assignment added to the command
\* (none when the tag is None or empty)
add_if_present(tag) == IF tag # None /\ tag[1] # "" THEN tag ELSE None

\* cue_album.get_disc(disc_id).titles_tags[track_id], track_id 0-based
track_title(album, disc_id, track_id) ==
    get_disc(album, disc_id).titles_tags[track_id + 1]

\* CueToFlacTagUtils.tag_single_file: the metaflac command
tag_single_file(flac_file, album, disc_id, track_id) ==
    [file |-> flac_file,
     ARTIST |-> add_if_present(album.artist_tag),
     ALBUM |-> add_if_present(album.album_tag),
     TITLE |-> add_if_present(Some(track_title(album, disc_id, track_id))),
     DATE |-> add_if_present(album.year_tag)]

\* CueToFlacTagUtils.tag_files: the metaflac commands run, and the IndexError
\* that titles_tags[track_id] raises at the first file past the titles.
tag_files(files, album, current_disc_id) ==
    LET sorted == SortByMtime(files)
        ntitles == Len(get_disc(album, current_disc_id).titles_tags)
        done == Min(Len(sorted), ntitles)
    IN [calls |-> [i \in 1..done |->
                      tag_single_file(sorted[i], album, current_disc_id, i - 1)],
        raised |-> IF Len(sorted) > ntitles THEN "IndexError" ELSE "None"]

\* Converter.__get_dest_dir: the destination of a sheet in current_dir
get_dest_dir(current_dir) == IF dest_abs THEN "abs" ELSE current_dir

SameName(f, g) == f.n = g.n /\ f.t = g.t

\* The mutant of move_to_newdir: without the test of lines 217-220 the files
\* are written to the destination path whatever it is.
move_to_newdir_unchecked(files, d, from) ==
    [dest |-> [kind |-> "dir",
               files |-> {g \in d.files : \A f \in files : ~SameName(f, g)}
                         \cup {[n |-> f.n, t |-> f.t, from |-> from] : f \in files}],
     moved |-> files,
     raised |-> "None"]

\* FileUtils.move_to_newdir: the destination afterwards, and the exception
move_to_newdir(files, d, from) ==
    IF d.kind = "file"
    THEN [dest |-> d, moved |-> {}, raised |-> "AttributeError"]
    ELSE [dest |-> [kind |-> "dir",
                    files |-> {g \in d.files : \A f \in files : ~SameName(f, g)}
                              \cup {[n |-> f.n, t |-> f.t, from |-> from] : f \in files}],
          moved |-> files,
          raised |-> "None"]

\* FileUtils.clean_up_old_dirs: the directories left
clean_up_old_dirs(dirs, src_dir) == {d \in dirs : d.loc # src_dir}

(***************************************************************************)
(* The parser on its own: every sheet of at most MaxLines lines over       *)
(* SheetLines is parsed a line at a time, and the temporary sheet of each  *)
(* disc is then built as CueConverter.convert builds it.                   *)
(***************************************************************************)
SheetLines ==
    { Line(FALSE, "FILE", <<"a.flac", "WAVE">>),
      Line(FALSE, "FILE", <<>>),
      Line(TRUE, "FILE", <<"b.flac", "WAVE">>),
      Line(FALSE, "TITLE", <<"One">>),
      Line(FALSE, "TITLE", <<"Two", "more">>),
      Line(TRUE, "TITLE", <<"Three">>),
      Line(FALSE, "PERFORMER", <<"A">>),
      Line(FALSE, "PERFORMER", <<"B">>),
      Line(FALSE, "REM DATE", <<"2001">>),
      Line(FALSE, "REM DATE", <<"2002">>),
      Line(TRUE, "INDEX", <<"01 00", "00", "0">>) }

SheetTexts == UNION { [1..n -> SheetLines] : n \in 0..MaxLines }

NoDest == [p \in {"abs", "root", "sub"} |-> [kind |-> "absent", files |-> {}]]

ParseInit ==
    /\ cue_file_lines \in SheetTexts
    /\ pc = "p_parse"
    /\ parse_pos = 0
    /\ cue_album = CueAlbum
    /\ cue_disc_id = 0
    /\ fs_cues = {}
    /\ debug = FALSE /\ fallback = None /\ dest_abs = FALSE /\ cue_files = <<>>
    /\ sheet_idx = 0 /\ decodes = 0 /\ first_track_num = FIRST_TRACK_START_NUMBER
    /\ temp_cue = None /\ temp_dir = None /\ err = "None"
    /\ fs_dirs = {} /\ dest = NoDest
    /\ split_calls = <<>> /\ split_out = {} /\ tag_calls = <<>> /\ moved = {}

run_vars == <<debug, fallback, dest_abs, cue_files, sheet_idx, decodes, first_track_num,
              temp_cue, temp_dir, err, fs_dirs, dest, split_calls,
              split_out, tag_calls, moved>>

\* One iteration of the loop of parse_cue_file (lines 164-173).
ParseLine ==
    /\ pc = "p_parse"
    /\ parse_pos < Len(cue_file_lines)
    /\ cue_album.raised = "None"
    /\ cue_album' = parse_line(cue_album, cue_file_lines[parse_pos + 1])
    /\ parse_pos' = parse_pos + 1
    /\ UNCHANGED <<pc, cue_file_lines, cue_disc_id, fs_cues, run_vars>>

\* parse_cue_file returns the album (line 174), or the exception leaves it.
ParseReturn ==
    /\ pc = "p_parse"
    /\ parse_pos = Len(cue_file_lines) \/ cue_album.raised # "None"
    /\ pc' = IF cue_album.raised # "None" THEN "p_raised" ELSE "p_build"
    /\ UNCHANGED <<cue_file_lines, parse_pos, cue_album, cue_disc_id, fs_cues, run_vars>>

\* The temporary sheet of one disc, as CueConverter.convert builds it (line 136).
BuildTempCue ==
    /\ pc = "p_build"
    /\ cue_disc_id < Len(cue_album.cue_disks)
    /\ fs_cues' = fs_cues \cup
          {[id |-> cue_disc_id,
            content |-> temp_cue_content(cue_album, get_disc(cue_album, cue_disc_id))]}
    /\ cue_disc_id' = cue_disc_id + 1
    /\ UNCHANGED <<pc, cue_file_lines, parse_pos, cue_album, run_vars>>

ParseNext == ParseLine \/ ParseReturn \/ BuildTempCue

SpecParse == ParseInit /\ [][ParseNext]_vars

(***************************************************************************)
(* What a sheet holds, read off its lines without the parser.              *)
(***************************************************************************)
IsFileDecl(l) == l.ind = FALSE /\ l.key = "FILE"

FileDeclAt(lines) == {i \in 1..Len(lines) : IsFileDecl(lines[i])}

\* The position of the k-th file declaration; Len(lines) + 1 past the last one.
NthFileDecl(lines, k) ==
    IF k > Cardinality(FileDeclAt(lines)) THEN Len(lines) + 1
    ELSE CHOOSE i \in FileDeclAt(lines) :
            Cardinality({j \in FileDeclAt(lines) : j < i}) = k - 1

HeaderOf(lines) == SubSeq(lines, 1, NthFileDecl(lines, 1) - 1)

SectionOf(lines, k) ==
    SubSeq(lines, NthFileDecl(lines, k), NthFileDecl(lines, k + 1) - 1)

\* The first words of the header lines of one tag type, in sheet order.
HeaderValues(lines, key) ==
    LET h == HeaderOf(lines)
        at == {i \in 1..Len(h) : h[i].ind = FALSE /\ h[i].key = key}
        nth(k) == CHOOSE i \in at : Cardinality({j \in at : j < i}) = k - 1
    IN [k \in 1..Cardinality(at) |-> h[nth(k)].arg[1]]

FirstOrNone(s) == IF s = <<>> THEN None ELSE Some(s[1])
LastOrNone(s) == IF s = <<>> THEN None ELSE Some(s[Len(s)])

Parsed == pc = "p_build"

\* C9: a parse that returns has one disc per file-declaration line, in sheet
\* order, each with the name its declaration gives; the header is exactly the
\* lines before the first file declaration; the raw lines of disc k are the
\* (time-corrected) lines from its declaration up to the next one; and every
\* temporary sheet built is the header followed by its disc's raw lines.
C9_ParseShape ==
    Parsed =>
        /\ Len(cue_album.cue_disks) = Cardinality(FileDeclAt(cue_file_lines))
        /\ cue_album.header = HeaderOf(cue_file_lines)
        /\ \A k \in 1..Len(cue_album.cue_disks) :
              LET sec == SectionOf(cue_file_lines, k)
                  disc == cue_album.cue_disks[k]
              IN /\ disc.music_file_name = Some(sec[1].arg[1])
                 /\ disc.cue_context = [j \in 1..Len(sec) |-> fix_time_format(sec[j])]
        /\ \A c \in fs_cues :
              /\ SubSeq(c.content, 1, Len(HeaderOf(cue_file_lines)))
                    = HeaderOf(cue_file_lines)
              /\ SubSeq(c.content, Len(HeaderOf(cue_file_lines)) + 1, Len(c.content))
                    = cue_album.cue_disks[c.id + 1].cue_context

\* C9 witness: a two-disc sheet with a header, both temporary sheets built.
C9_Witness ==
    /\ Parsed
    /\ Len(cue_album.cue_disks) = 2
    /\ cue_album.header # <<>>
    /\ Cardinality(fs_cues) = 2

IndexArgs == { <<"01 00", "00", "0">>, <<"01 00", "00", "00">>,
               <<"01 03", "25", "5">>, <<"00 03", "25", "37">>,
               <<"02 07", "10", "12">> }

\* The lines tried: every index line, indented or not, and the other lines
\* of SheetLines; each as splitlines returns it and with its line separator.
FixLines ==
    { [ind |-> i, key |-> "INDEX", arg |-> a, eol |-> e] :
        i \in BOOLEAN, a \in IndexArgs, e \in {0, 1} }
    \cup { [l EXCEPT !.eol = e] : l \in {m \in SheetLines : m.key # "INDEX"}, e \in {0, 1} }

FixInit ==
    /\ cue_file_lines \in { <<l>> : l \in FixLines }
    /\ pc = "f_fix"
    /\ parse_pos = 0
    /\ cue_album = CueAlbum
    /\ cue_disc_id = 0
    /\ fs_cues = {}
    /\ debug = FALSE /\ fallback = None /\ dest_abs = FALSE /\ cue_files = <<>>
    /\ sheet_idx = 0 /\ decodes = 0 /\ first_track_num = FIRST_TRACK_START_NUMBER
    /\ temp_cue = None /\ temp_dir = None /\ err = "None"
    /\ fs_dirs = {} /\ dest = NoDest
    /\ split_calls = <<>> /\ split_out = {} /\ tag_calls = <<>> /\ moved = {}

\* line = CueConverter.fix_time_format(line) (line 169), applied to its own
\* result the second time.
FixTime ==
    /\ pc = "f_fix"
    /\ parse_pos < 2
    /\ cue_file_lines' = Append(cue_file_lines, fix_time_format(Last(cue_file_lines)))
    /\ parse_pos' = parse_pos + 1
    /\ UNCHANGED <<pc, cue_album, cue_disc_id, fs_cues, run_vars>>

FixNext == FixTime

SpecFix == FixInit /\ [][FixNext]_vars

\* The number of digits of the frame component of an index line.
FrameDigits(l) == Len(Last(l.arg))

\* What C11 says the correction of a line is, up to the line separator.
PaddedOnce(l) ==
    IF l.key = "INDEX" /\ FrameDigits(l) = 1
    THEN [l.arg EXCEPT ![Len(l.arg)] = @ \o "0"]
    ELSE l.arg

\* C11 as stated: a frame component of one digit gets one trailing zero, an
\* index line whose frame component has two digits and every other line keep
\* their text, and correcting a corrected line changes nothing.
C11_PadsOnceIdempotent ==
    parse_pos = 2 =>
        /\ cue_file_lines[2].arg = PaddedOnce(cue_file_lines[1])
        /\ cue_file_lines[1].key # "INDEX" => cue_file_lines[2] = cue_file_lines[1]
        /\ cue_file_lines[3].arg = cue_file_lines[2].arg

(***************************************************************************)
(* The run: Converter.convert over the sheets the scan finds, and          *)
(* CueConverter.convert over the discs of each sheet.  What the            *)
(* environment decides (the bytes of a sheet, whether a temporary file or  *)
(* directory can be written, what shnsplit does) is chosen where the code  *)
(* reads it.  The locals of CueConverter.convert are forgotten when it     *)
(* returns.                                                                *)
(***************************************************************************)
Dirs == {"root", "sub"}

HeaderFull == << Line(FALSE, "REM DATE", <<"2001">>),
                 Line(FALSE, "PERFORMER", <<"A">>),
                 Line(FALSE, "TITLE", <<"B">>) >>

\* PERFORMER "": an artist that is the empty string; no album title, no date.
HeaderBare == << Line(FALSE, "PERFORMER", <<"">>) >>

TrackName(j) == <<"One", "Two", "Three", "Four", "Five">>[j]

FileName(k) == <<"a.flac", "b.flac", "c.flac", "d.flac">>[k]

RECURSIVE TrackLines(_, _)
TrackLines(titled, j) ==
    IF j > Len(titled) THEN <<>>
    ELSE << Line(TRUE, "TRACK", <<"AUDIO">>) >>
         \o (IF titled[j] THEN << Line(TRUE, "TITLE", <<TrackName(j)>>) >> ELSE <<>>)
         \o << Line(TRUE, "INDEX", <<"01 00", "00", "00">>) >>
         \o TrackLines(titled, j + 1)

\* A disc: its FILE line, a TITLE line of its own when loose, then its
\* tracks, each with a TITLE line when titled.
DiscLines(k, shape) ==
    << Line(FALSE, "FILE", <<FileName(k), "WAVE">>) >>
    \o (IF shape.loose THEN << Line(TRUE, "TITLE", <<"Side">>) >> ELSE <<>>)
    \o TrackLines(shape.titled, 1)

RECURSIVE DiscsLines(_, _)
DiscsLines(shapes, k) ==
    IF k > Len(shapes) THEN <<>>
    ELSE DiscLines(k, shapes[k]) \o DiscsLines(shapes, k + 1)

\* The discs of the sheets of a run: one to MaxTracks tracks, all titled or
\* all but the last (a one-track disc without any title too); a one-track
\* disc may have a TITLE line of its own.
DiscShapes ==
    { [titled |-> [j \in 1..n |-> j < n \/ last], loose |-> FALSE] :
         n \in 1..MaxTracks, last \in BOOLEAN }
    \cup { [titled |-> <<TRUE>>, loose |-> TRUE] }

\* The sheets a run may find with at most n discs: every disc shape under
\* the full header, the one-disc and empty sheets under the bare header too,
\* a sheet whose FILE line names no file, and a sheet that decodes only
\* under the fallback encoding or under none.
SheetFiles(n) ==
    { [enc |-> "utf-8", lines |-> HeaderFull \o DiscsLines(shapes, 1)] :
        shapes \in UNION { [1..m -> DiscShapes] : m \in 0..n } }
    \cup { [enc |-> "utf-8", lines |-> HeaderBare \o DiscsLines(shapes, 1)] :
        shapes \in UNION { [1..m -> DiscShapes] : m \in 0..Min(n, 1) } }
    \cup { [enc |-> "utf-8", lines |-> HeaderFull \o << Line(FALSE, "FILE", <<>>) >>] }
    \cup { [enc |-> e, lines |-> HeaderFull \o DiscLines(1, [titled |-> <<TRUE>>, loose |-> FALSE])] :
             e \in {"cp1251", "bad"} }

\* The i-th sheet of a run has at most MaxDiscs + 1 - i discs.
SheetFilesAt(i) == SheetFiles(IF i <= MaxDiscs THEN MaxDiscs + 1 - i ELSE 0)

StaleDirs == { [id |-> 1, loc |-> "root", stale |-> TRUE, files |-> {}],
               [id |-> 2, loc |-> "sub", stale |-> TRUE, files |-> {}] }

Max(S) == CHOOSE x \in S : \A y \in S : y <= x

\* A name tempfile has not given out: none of a file or directory that exists,
\* nor the one temp_cue or temp_dir still holds.
FreshId ==
    1 + Max({0} \cup {c.id : c \in fs_cues} \cup {d.id : d \in fs_dirs}
                \cup {temp_cue[i] : i \in DOMAIN temp_cue}
                \cup {temp_dir[i] : i \in DOMAIN temp_dir})

Init ==
    /\ debug \in BOOLEAN
    /\ fallback \in {None, Some("cp1251")}
    /\ dest_abs \in BOOLEAN
    /\ cue_files \in UNION { [1..n -> Dirs] : n \in 0..MaxSheets }
    /\ pc = "start"
    /\ sheet_idx = 0
    /\ decodes = 0
    /\ cue_file_lines = <<>>
    /\ parse_pos = 0
    /\ cue_album = CueAlbum
    /\ cue_disc_id = 0
    /\ first_track_num = FIRST_TRACK_START_NUMBER
    /\ temp_cue = None
    /\ temp_dir = None
    /\ err = "None"
    /\ fs_cues = {}
    /\ fs_dirs = StaleDirs
    /\ \E k \in {"absent", "dir", "file"} :
          dest = [p \in {"abs", "root", "sub"} |->
                     [kind |-> IF dest_abs
                               THEN (IF p = "abs" THEN k ELSE "absent")
                               ELSE (IF \E i \in DOMAIN cue_files : cue_files[i] = p
                                     THEN k ELSE "absent"),
                      files |-> {}]]
    /\ split_calls = <<>>
    /\ split_out = {}
    /\ tag_calls = <<>>
    /\ moved = {}

args_vars == <<debug, fallback, dest_abs, cue_files>>
disc_logs == <<split_out, tag_calls, moved>>
sheet_vars == <<decodes, cue_file_lines, parse_pos, cue_album>>
locals == <<cue_disc_id, first_track_num, temp_cue, temp_dir>>

\* Converter.convert, lines 95-96
CleanUpOldDirs ==
    /\ pc = "start"
    /\ fs_dirs' = IF ~debug THEN clean_up_old_dirs(fs_dirs, "root") ELSE fs_dirs
    /\ pc' = "scan"
    /\ UNCHANGED <<args_vars, sheet_idx, sheet_vars, locals, err, fs_cues, dest,
                   split_calls, disc_logs>>

\* The mutant of the loop of Converter.convert: the sweep of line 96 is run
\* again before every sheet but the first.
NextSheet_sweep(i) ==
    IF i < Len(cue_files)
    THEN /\ pc' = IF i = 0 THEN "construct" ELSE "start"
         /\ sheet_idx' = i + 1
    ELSE /\ pc' = "done"
         /\ sheet_idx' = i

\* The sheet after position i of cue_files, or the end of the run.
NextSheet(i) ==
    IF i < Len(cue_files)
    THEN /\ pc' = "construct"
         /\ sheet_idx' = i + 1
    ELSE /\ pc' = "done"
         /\ sheet_idx' = i

\* Converter.convert, lines 97-99 (without sheets the run converts the other
\* audio files, which this model leaves out).
ScanDirectory ==
    /\ pc = "scan"
    /\ NextSheet(0)
    /\ UNCHANGED <<args_vars, sheet_vars, locals, err, fs_cues, fs_dirs, dest,
                   split_calls, disc_logs>>

\* CueConverter.__init__ (line 101, lines 119-124): the sheet is read and
\* parsed; an exception of either leaves Converter.convert.
Construct ==
    /\ pc = "construct"
    /\ \E file \in SheetFilesAt(sheet_idx) :
          LET read == readTextFile(file, "utf-8", fallback, 0)
              album == parse_cue_file(read.lines)
          IN IF read.raised # "None"
             THEN /\ err' = read.raised
                  /\ pc' = "aborted"
                  /\ decodes' = read.attempts
                  /\ UNCHANGED <<cue_file_lines, parse_pos, cue_album>>
             ELSE /\ decodes' = read.attempts
                  /\ cue_file_lines' = read.lines
                  /\ cue_album' = album
                  /\ parse_pos' = Len(album.header)
                                    + IF album.cue_disks = <<>> THEN 0
                                      ELSE Len(read.lines) - Len(album.header)
                  /\ err' = album.raised
                  /\ pc' = IF album.raised # "None" THEN "aborted" ELSE "convert"
    /\ UNCHANGED <<args_vars, sheet_idx, locals, fs_cues, fs_dirs, dest, split_calls,
                   disc_logs>>

\* CueConverter.convert returns: Converter.convert goes on with the next sheet.
ConvertReturn ==
    /\ decodes' = 0
    /\ cue_file_lines' = <<>>
    /\ parse_pos' = 0
    /\ cue_album' = CueAlbum
    /\ cue_disc_id' = 0
    /\ first_track_num' = FIRST_TRACK_START_NUMBER
    /\ temp_cue' = None
    /\ temp_dir' = None
    /\ split_calls' = <<>>
    /\ split_out' = {} /\ tag_calls' = <<>> /\ moved' = {}
    /\ NextSheet(sheet_idx)

\* CueConverter.convert, lines 127-128
ConvertStart ==
    /\ pc = "convert"
    /\ IF cue_album.cue_disks = <<>>
       THEN ConvertReturn
       ELSE /\ first_track_num' = FIRST_TRACK_START_NUMBER
            /\ cue_disc_id' = 0
            /\ pc' = "create"
            /\ UNCHANGED <<sheet_idx, sheet_vars, temp_cue, temp_dir, split_calls,
                           disc_logs>>
    /\ UNCHANGED <<args_vars, err, fs_cues, fs_dirs, dest>>

CurrentDisc == get_disc(cue_album, cue_disc_id)

\* CueConverter.convert, line 136: an IOError of create_temp_cue_file is
\* raised before the try statement is entered.
CreateTempCue ==
    /\ pc = "create"
    /\ \E stored \in BOOLEAN :
          LET r == create_temp_cue_file(temp_cue_content(cue_album, CurrentDisc),
                                        FreshId, stored)
          IN /\ fs_cues' = fs_cues \cup {r.file}
             /\ err' = r.raised
             /\ temp_cue' = IF r.raised = "None" THEN Some(r.file.id) ELSE temp_cue
             /\ pc' = IF r.raised = "None" THEN "mkdtemp" ELSE "aborted"
    /\ UNCHANGED <<args_vars, sheet_idx, sheet_vars, cue_disc_id, first_track_num,
                   temp_dir, fs_dirs, dest, split_calls, disc_logs>>

\* CueConverter.convert, lines 138-142: tempfile.mkdtemp creates the
\* directory, or raises OSError (a directory that cannot be written).
MkDTemp ==
    /\ pc = "mkdtemp"
    /\ \E made \in BOOLEAN :
          IF made
          THEN /\ fs_dirs' = fs_dirs \cup
                    {[id |-> FreshId, loc |-> cue_files[sheet_idx], stale |-> FALSE,
                      files |-> {}]}
               /\ temp_dir' = Some(FreshId)
               /\ pc' = "split"
               /\ UNCHANGED err
          ELSE /\ err' = "OSError"
               /\ pc' = "finally"
               /\ UNCHANGED <<fs_dirs, temp_dir>>
    /\ UNCHANGED <<args_vars, sheet_idx, sheet_vars, cue_disc_id, first_track_num,
                   temp_cue, fs_cues, dest, split_calls, disc_logs>>

TheDir(id) == CHOOSE d \in fs_dirs : d.id = id

TheCue(id) == CHOOSE c \in fs_cues : c.id = id

SetFiles(id, files) ==
    {IF d.id = id THEN [d EXCEPT !.files = files] ELSE d : d \in fs_dirs}

\* CueConverter.convert, line 143: shnsplit exits 0 with every track written,
\* or non-zero with fewer.
Split ==
    /\ pc = "split"
    /\ \E status \in {0, 1}, pregap \in BOOLEAN :
       LET content == TheCue(temp_cue[1]).content
           ntracks == Len(TrackTitles(content))
       IN \E k \in (IF status = 0 THEN {ntracks} ELSE 0..(ntracks - 1)) :
          LET out == SplitterOutput(content, first_track_num, pregap, k)
              raised == split_file_by_cue_sheet(status)
          IN /\ fs_dirs' = SetFiles(temp_dir[1], out)
             /\ split_out' = out
             /\ split_calls' = Append(split_calls,
                                  [disc |-> cue_disc_id, c |-> first_track_num,
                                   status |-> status])
             /\ err' = raised
             /\ pc' = IF raised = "None" THEN "pregap" ELSE "finally"
    /\ UNCHANGED <<args_vars, sheet_idx, sheet_vars, locals, fs_cues, dest,
                   tag_calls, moved>>

\* CueConverter.convert, line 144
RemovePregap ==
    /\ pc = "pregap"
    /\ fs_dirs' = SetFiles(temp_dir[1], remove_pregap_files(TheDir(temp_dir[1]).files))
    /\ pc' = "tag"
    /\ UNCHANGED <<args_vars, sheet_idx, sheet_vars, locals, err, fs_cues, dest,
                   split_calls, disc_logs>>

\* CueConverter.convert, line 145
Tag ==
    /\ pc = "tag"
    /\ LET r == tag_files(TheDir(temp_dir[1]).files, cue_album, cue_disc_id)
       IN /\ tag_calls' = r.calls
          /\ err' = r.raised
          /\ pc' = IF r.raised = "None" THEN "advance" ELSE "finally"
    /\ UNCHANGED <<args_vars, sheet_idx, sheet_vars, locals, fs_cues, fs_dirs, dest,
                   split_calls, split_out, moved>>

\* The mutant of line 146: the counter advances by the files tagged.
advance_by_files(n, disc, calls) == n + Len(calls)

\* CueConverter.convert, line 146
advance(n, disc, calls) == n + Len(disc.titles_tags)

Advance ==
    /\ pc = "advance"
    /\ first_track_num' = advance(first_track_num, CurrentDisc, tag_calls)
    /\ pc' = "move"
    /\ UNCHANGED <<args_vars, sheet_idx, sheet_vars, cue_disc_id, temp_cue, temp_dir,
                   err, fs_cues, fs_dirs, dest, split_calls, disc_logs>>

\* CueConverter.convert, line 147
Move ==
    /\ pc = "move"
    /\ LET p == get_dest_dir(cue_files[sheet_idx])
           r == move_to_newdir(TheDir(temp_dir[1]).files, dest[p],
                               <<sheet_idx, cue_disc_id>>)
       IN /\ dest' = [dest EXCEPT ![p] = r.dest]
          /\ moved' = r.moved
          /\ fs_dirs' = SetFiles(temp_dir[1], TheDir(temp_dir[1]).files \ r.moved)
          /\ err' = r.raised
    /\ pc' = "finally"
    /\ UNCHANGED <<args_vars, sheet_idx, sheet_vars, locals, fs_cues, split_calls,
                   split_out, tag_calls>>

\* shutil.rmtree(temp_dir) of line 151: temp_dir is unbound when no mkdtemp of
\* this call returned, and names a removed directory when only an earlier
\* disc's did.
rmtree_temp_dir(dirs, td) ==
    IF td = None THEN [dirs |-> dirs, raised |-> "UnboundLocalError"]
    ELSE IF \A d \in dirs : d.id # td[1] THEN [dirs |-> dirs, raised |-> "FileNotFoundError"]
    ELSE [dirs |-> {d \in dirs : d.id # td[1]}, raised |-> "None"]

\* CueConverter.convert, lines 148-151, then the next iteration of the loop,
\* the return, or the exception leaving convert.
Finally ==
    /\ pc = "finally"
    /\ fs_cues' = {c \in fs_cues : c.id # temp_cue[1]}
    /\ LET r == IF ~debug THEN rmtree_temp_dir(fs_dirs, temp_dir)
                ELSE [dirs |-> fs_dirs, raised |-> "None"]
           e == IF r.raised # "None" THEN r.raised ELSE err
       IN /\ fs_dirs' = r.dirs
          /\ err' = e
          /\ IF e # "None"
             THEN /\ pc' = "aborted"
                  /\ UNCHANGED <<sheet_idx, sheet_vars, locals, split_calls, disc_logs>>
             ELSE IF cue_disc_id + 1 < Len(cue_album.cue_disks)
             THEN /\ pc' = "create"
                  /\ cue_disc_id' = cue_disc_id + 1
                  /\ split_out' = {} /\ tag_calls' = <<>> /\ moved' = {}
                  /\ UNCHANGED <<sheet_idx, sheet_vars, first_track_num, temp_cue,
                                 temp_dir, split_calls>>
             ELSE ConvertReturn
    /\ UNCHANGED <<args_vars, dest>>

Next ==
    \/ CleanUpOldDirs
    \/ ScanDirectory
    \/ Construct
    \/ ConvertStart
    \/ CreateTempCue
    \/ MkDTemp
    \/ Split
    \/ RemovePregap
    \/ Tag
    \/ Advance
    \/ Move
    \/ Finally

Spec == Init /\ [][Next]_vars

\* A run over a directory that holds one sheet: CueConverter is constructed
\* and its convert called once (lines 100-102).
InitConvert == Init /\ Len(cue_files) = 1

SpecConvert == InitConvert /\ [][Next]_vars

(***************************************************************************)
(* Properties of the run.                                                  *)
(***************************************************************************)
RECURSIVE TitlesBefore(_, _)
\* The titles of the first k discs of the album, counted.
TitlesBefore(album, k) ==
    IF k = 0 THEN 0
    ELSE Len(album.cue_disks[k].titles_tags) + TitlesBefore(album, k - 1)

DiscOver == pc \in {"create", "construct", "done", "aborted"}

\* C2: no temporary sheet file exists once the processing of its disc is
\* over, whichever way it ended.
C2_TempCueRemoved == DiscOver => fs_cues = {}

ReleaseErrors == {"UnboundLocalError", "FileNotFoundError"}

\* C3: without --debug no temporary directory of the run exists once the
\* processing of its disc is over, and convert never ends with an exception
\* raised by the release of a directory that was not acquired.
C3_TempDirReleased ==
    ~debug =>
        /\ DiscOver => \A d \in fs_dirs : d.stale
        /\ pc = "aborted" => err \notin ReleaseErrors

\* C4: a run never stops at a failing disc or sheet with a disc of the sheet
\* or a sheet of the run still to process.
C4_SiblingsProcessed ==
    pc = "aborted" =>
        /\ sheet_idx = Len(cue_files)
        /\ cue_disc_id + 1 >= Len(cue_album.cue_disks)

\* The split of the current disc has been called and exited non-zero.
SplitFailed ==
    /\ split_calls # <<>>
    /\ Last(split_calls).disc = cue_disc_id
    /\ Last(split_calls).status # 0

\* C5: the split step raises nothing, whatever the exit status; the finally
\* block of a disc whose split failed removes its temporary directory
\* (without --debug); and unless a later step of that disc raised, the loop
\* goes on with the next disc of the sheet (or returns after the last).
C5_SplitFailureNonFatal ==
    [][ /\ pc = "split" => (err' = "None" /\ pc' = "pregap")
        /\ (pc = "finally" /\ SplitFailed /\ ~debug)
              => \A d \in fs_dirs' : d.id # temp_dir[1]
        /\ (pc = "finally" /\ SplitFailed /\ err = "None")
              => IF cue_disc_id + 1 < Len(cue_album.cue_disks)
                 THEN pc' = "create" /\ cue_disc_id' = cue_disc_id + 1
                 ELSE pc' \in {"construct", "done"}
      ]_vars

\* C5 witness: the second disc is begun after the split of the first failed.
C5_Witness ==
    /\ ~debug
    /\ pc = "create"
    /\ cue_disc_id = 1
    /\ Len(split_calls) = 1
    /\ split_calls[1].status # 0

NonPregap(files) == {f \in files : f.t # "pregap"}

\* The tagger has been called for the current disc.
AfterTag ==
    /\ pc \in {"advance", "move", "finally"}
    /\ split_calls # <<>>
    /\ Last(split_calls).disc = cue_disc_id

\* C6: when the files left after pregap removal are not as many as the titles
\* of the disc, an error is raised and no file of the disc is tagged or moved.
C6_MismatchSignalled ==
    (AfterTag /\ Cardinality(NonPregap(split_out))
                    # Len(CurrentDisc.titles_tags))
        => /\ err # "None"
           /\ tag_calls = <<>>
           /\ moved = {}

Present(tag) == tag # None /\ tag[1] # ""

IfPresent(tag) == IF Present(tag) THEN tag ELSE None

\* C8: the i-th metaflac invocation of a disc is for the i-th file of the
\* directory by modification time, sets TITLE to the i-th title of the disc,
\* and sets ARTIST, ALBUM and DATE exactly when the album has a value for
\* them that is not empty; once the tagger has returned, every file that has
\* a title was tagged.
C8_TagCalls ==
    /\ \A i \in DOMAIN tag_calls :
          LET c == tag_calls[i]
              files == NonPregap(split_out)
          IN /\ c.file \in files
             /\ Cardinality({f \in files : f.mtime < c.file.mtime}) = i - 1
             /\ c.TITLE = IfPresent(Some(CurrentDisc.titles_tags[i]))
             /\ c.ARTIST = IfPresent(cue_album.artist_tag)
             /\ c.ALBUM = IfPresent(cue_album.album_tag)
             /\ c.DATE = IfPresent(cue_album.year_tag)
    /\ (AfterTag /\ err = "None") =>
          Len(tag_calls) = Cardinality(NonPregap(split_out))

\* C8 witness: two files tagged under an album whose artist is the empty
\* string and that has no title and no date.
C8_Witness ==
    /\ Len(tag_calls) = 2
    /\ tag_calls[2].TITLE = Some("Two")
    /\ cue_album.artist_tag = Some("")
    /\ cue_album.album_tag = None

(***************************************************************************)
(* readTextFile on its own: one sheet file is read under each value of     *)
(* --fallback_cue_encoding.                                                *)
(***************************************************************************)
\* The values of args.fallback_cue_encoding: not given, empty, an encoding
\* other than the default, and the default encoding itself.
Fallbacks == {None, Some(""), Some("cp1251"), Some("utf-8")}

\* The sheet files read: the sheets of a run, under each encoding.
ReadFiles ==
    { [enc |-> e, lines |-> f.lines] :
        e \in {"utf-8", "cp1251", "bad"}, f \in SheetFiles(MaxDiscs) }

ReadInit ==
    /\ fallback \in Fallbacks
    /\ pc = "r_read"
    /\ decodes = 0
    /\ cue_file_lines = <<>>
    /\ parse_pos = 0
    /\ cue_album = CueAlbum
    /\ cue_disc_id = 0
    /\ fs_cues = {}
    /\ debug = FALSE /\ dest_abs = FALSE /\ cue_files = <<>>
    /\ sheet_idx = 0 /\ first_track_num = FIRST_TRACK_START_NUMBER
    /\ temp_cue = None /\ temp_dir = None /\ err = "None"
    /\ fs_dirs = {} /\ dest = NoDest
    /\ split_calls = <<>> /\ split_out = {} /\ tag_calls = <<>> /\ moved = {}

\* FileUtils.readTextFile(self.cue_file) of line 164, to its return or to the
\* exception that leaves it.
ReadTextFile ==
    /\ pc = "r_read"
    /\ \E file \in ReadFiles :
          LET read == readTextFile(file, "utf-8", fallback, 0)
          IN /\ decodes' = read.attempts
             /\ cue_file_lines' = read.lines
             /\ err' = read.raised
    /\ pc' = "r_done"
    /\ UNCHANGED <<args_vars, sheet_idx, parse_pos, cue_album, locals, fs_cues,
                   fs_dirs, dest, split_calls, disc_logs>>

ReadNext == ReadTextFile

SpecRead == ReadInit /\ [][ReadNext]_vars

\* if not args.fallback_cue_encoding
Configured == fallback # None /\ fallback # Some("")

\* C12 as stated: a read makes one decode attempt, and a second one only
\* when a fallback encoding is configured; a read that fails raises the fatal
\* error after the first attempt without a fallback and after the second with
\* one; no read makes more than two attempts, whatever the fallback is.
C12_AtMostTwoDecodes ==
    pc = "r_done" =>
        /\ decodes \in 1..2
        /\ decodes = 2 => Configured
        /\ err # "None" =>
              /\ err = "IOError"
              /\ decodes = IF Configured THEN 2 ELSE 1

(***************************************************************************)
(* The run, continued: the sheet without discs, the sweep of stale         *)
(* directories, the destination, and the order of the steps.               *)
(***************************************************************************)
\* C13 as stated: the conversion of an album that parsed to zero discs ends
\* in an error raised by CueConverter.convert, never in a silent return.
C13_EmptySheetMalformed ==
    [][(pc = "convert" /\ cue_album.cue_disks = <<>>)
          => (pc' = "aborted" /\ err' # "None")]_vars

\* The directories the run itself created.
OwnDirs(dirs) == {d \in dirs : ~d.stale}

\* C14: line 96 is never reached a second time; when the sweep runs the run
\* has acquired no temporary directory yet, and what the sweep removes
\* existed before the run started; no other step removes such a directory.
C14_SweepOnceBeforeAcquire ==
    [][/\ pc' # "start"
       /\ pc = "start" =>
             /\ temp_dir = None
             /\ OwnDirs(fs_dirs) = {}
             /\ OwnDirs(fs_dirs') = {}
       /\ pc # "start" => \A d \in fs_dirs : d.stale => d \in fs_dirs']_vars

\* C14 witness: the sweep has removed the stale directory of the source root
\* and a later disc of the run holds its own temporary directory there.
C14_Witness ==
    /\ pc = "split"
    /\ ~debug
    /\ sheet_idx = 2
    /\ \A d \in fs_dirs : d.stale => d.loc # "root"
    /\ \E d \in OwnDirs(fs_dirs) : d.loc = "root" /\ temp_dir = Some(d.id)

\* C17 as stated: without --debug, once the sweep is over no directory left
\* by an earlier run remains in a directory that holds a sheet of this run.
C17_AllStaleSwept ==
    (~debug /\ pc # "start") =>
        \A d \in fs_dirs : d.stale => \A i \in DOMAIN cue_files : cue_files[i] # d.loc

\* The destination path of the sheet being converted.
DestPath == get_dest_dir(cue_files[sheet_idx])

\* C15: a relocation to a path that is a file raises the error of lines
\* 218-220 and moves nothing, the files of the disc stay where they were, and
\* no step of the run changes a destination path that is a file.
C15_DestinationConflict ==
    [][/\ (pc = "move" /\ dest[DestPath].kind = "file") =>
             /\ err' = "AttributeError"
             /\ moved' = {}
             /\ fs_dirs' = fs_dirs
       /\ \A p \in DOMAIN dest : dest[p].kind = "file" => dest'[p] = dest[p]]_vars

\* C15 witness: the relocation of a disc with output files has just failed
\* on a destination that is a file.
C15_Witness ==
    /\ pc = "finally"
    /\ err = "AttributeError"
    /\ dest[DestPath].kind = "file"
    /\ moved = {}
    /\ TheDir(temp_dir[1]).files # {}

\* C16 as stated: the splitter is called for the discs of a sheet in sheet
\* order, once each, and only after the steps of the disc before are over;
\* the starting numbers it is given never decrease, and only the first is
\* FIRST_TRACK_START_NUMBER.
C16_OrderedNumbering ==
    pc \in {"create", "mkdtemp", "split", "pregap", "tag", "advance", "move", "finally"} =>
        /\ pc \in {"create", "mkdtemp", "split"} => Len(split_calls) = cue_disc_id
        /\ pc \in {"pregap", "tag", "advance", "move"} => Len(split_calls) = cue_disc_id + 1
        /\ Len(split_calls) \in {cue_disc_id, cue_disc_id + 1}
        /\ \A i \in DOMAIN split_calls : split_calls[i].disc = i - 1
        /\ \A i, j \in DOMAIN split_calls :
              i < j => split_calls[i].c <= split_calls[j].c
        /\ \A i \in DOMAIN split_calls :
              i > 1 => split_calls[i].c # FIRST_TRACK_START_NUMBER

\* C18 as stated: a file that a relocation of this run placed in a
\* destination is never replaced by a later relocation of the run (the
\* destinations hold no file when the run starts).
C18_NoReplace ==
    [][\A p \in DOMAIN dest : \A g \in dest[p].files : g \in dest'[p].files]_vars

====
